---- MODULE Spec2Model ----
(***************************************************************************)
(* Warehouse stock pipeline (abdul-rehman-0609/OS_Project).                *)
(*                                                                         *)
(* new.c: supplier and retailer threads share two ring buffers (normal    *)
(* and urgent lane) guarded by the semaphores empty/full and one mutex;   *)
(* a SIGINT handler and the exhaustion of simulation_count stop the run.  *)
(* The older variant of the program (src/unnamed/part_000) has the same   *)
(* store, a stop_simulation flag and an interactive command thread.       *)
(*                                                                         *)
(* Every action is one atomic piece of a thread's code: a mutex lock, the *)
(* critical section up to its unlock, a sem_wait or a sem_post.           *)
(***************************************************************************)
EXTENDS Integers, Sequences, FiniteSets, TLC

\* ---------------------------------------------------------------- constants
BUFFER_SIZE == 10
MAX_PRIORITY == 2
LOW_STOCK_THRESHOLD == 1
HIGH_STOCK_THRESHOLD == 9
\* rand() % 100 (new.c:171)
ItemRange == 100

\* ---------------------------------------------------------------- bounds
\* largest number of suppliers / retailers / work bound entered at startup
MaxProducers == 1
MaxConsumers == 1
MaxWork == 2

VARIABLES
    NUM_PRODUCERS, NUM_CONSUMERS,   \* new.c:27-28, read at startup
    buffer, in, out,                \* normal lane (new.c:31-32)
    urgent_buffer, urgent_in, urgent_out, urgent_count,  \* new.c:35-37
    empty, full,                    \* semaphore values (new.c:40)
    mutex,                          \* owner of the mutex, or NoThread
    simulation_count,               \* new.c:45
    total_produced, total_consumed, \* new.c:46-47
    simulation_running,             \* new.c:21
    pc,                             \* position of every thread but main
    item, priority,                 \* locals of the threads
    rand_next,                      \* per priority, how many items were drawn
    main_pc,                        \* "join" | "returned"
    hpc, host, hi,                  \* signal handler: position, interrupted
                                    \* thread, index of the posting loops
    hpc2, host2, hi2,               \* the same for a second SIGINT, delivered
                                    \* to another thread while the first runs
    \* history variables (observe the run, never read by the program)
    fifo_normal, fifo_urgent,       \* items stored and not yet extracted
    shutdown_empty, shutdown_full,  \* handler tokens still in empty / full
    blocked_at_sigint,              \* workers parked in sem_wait at delivery
    woken,                          \* worker's last sem_wait took a handler token
    token,                          \* per thread: the token it took with sem_wait
                                    \* and has not passed on with sem_post
    alert,                          \* the stock alert last put on the screen
    \* the older variant (src/unnamed/part_000)
    stop_simulation,                \* part_000:35
    ui,                             \* index of the posting loops of "exit"
    commands,                       \* history: command lines read so far
    signals,                        \* history: interrupts delivered so far
    oplog                           \* history: the calls the command thread
                                    \* made to the store, with their results

config == <<NUM_PRODUCERS, NUM_CONSUMERS>>
lanes == <<buffer, in, out, urgent_buffer, urgent_in, urgent_out, urgent_count>>
fifos == <<fifo_normal, fifo_urgent>>
stats == <<total_produced, total_consumed>>
locals == <<item, priority, rand_next>>
handler == <<hpc, host, hi, simulation_running>>
again == <<hpc2, host2, hi2>>
shutdown == <<shutdown_empty, shutdown_full, blocked_at_sigint>>
older == <<stop_simulation, ui, commands, signals, oplog>>
vars == <<NUM_PRODUCERS, NUM_CONSUMERS, buffer, in, out, urgent_buffer,
          urgent_in, urgent_out, urgent_count, empty, full, mutex,
          simulation_count, total_produced, total_consumed,
          simulation_running, pc, item, priority, rand_next, main_pc,
          hpc, host, hi, fifo_normal, fifo_urgent, shutdown_empty,
          shutdown_full, blocked_at_sigint, woken, token,
          stop_simulation, ui, commands, signals, oplog,
          hpc2, host2, hi2, alert>>

\* ---------------------------------------------------------------- threads
NoThread == <<"none", 0>>
MainThread == <<"main", 0>>
Suppliers == {<<"supplier", i>> : i \in 1..NUM_PRODUCERS}
Retailers == {<<"retailer", i>> : i \in 1..NUM_CONSUMERS}
Workers == Suppliers \cup Retailers

Slots == 0..(BUFFER_SIZE - 1)

\* the process is alive until exit(0) in the handler or main's return
Alive == hpc # "h_exited" /\ hpc2 # "h_exited" /\ main_pc # "returned"

\* a thread runs unless the process is gone or a handler runs on its stack
CanRun(t) ==
    /\ Alive
    /\ ~(hpc # "idle" /\ host = t)
    /\ ~(hpc2 # "idle" /\ host2 = t)

\* ---------------------------------------------------------------- store
normal_count == (in - out + BUFFER_SIZE) % BUFFER_SIZE
total_stock == normal_count + urgent_count

\* the classification with the thresholds themselves left out (used to
\* test C14)
stock_alert_strict(total) ==
    IF total < LOW_STOCK_THRESHOLD THEN "LOW"
    ELSE IF total > HIGH_STOCK_THRESHOLD THEN "HIGH"
    ELSE "NORMAL"

\* the classification of the stock level (new.c:77-81, part_000:185-189)
stock_alert(total) ==
    IF total <= LOW_STOCK_THRESHOLD THEN "LOW"
    ELSE IF total >= HIGH_STOCK_THRESHOLD THEN "HIGH"
    ELSE "NORMAL"

\* the overflow test of add_product
BufferFull == (in + 1) % BUFFER_SIZE = out

\* the underflow test of extract_product and of the retailer
StoreEmpty == in = out /\ urgent_count = 0

\* add_product without its overflow test (used to test C3)
add_product_unguarded(it, prio) ==
    IF prio # 0
    THEN /\ urgent_buffer' = [urgent_buffer EXCEPT ![urgent_in] = it]
         /\ urgent_in' = (urgent_in + 1) % BUFFER_SIZE
         /\ urgent_count' = urgent_count + 1
         /\ fifo_urgent' = Append(fifo_urgent, it)
         /\ UNCHANGED <<buffer, in, out, urgent_out, fifo_normal>>
    ELSE /\ buffer' = [buffer EXCEPT ![in] = it]
         /\ in' = (in + 1) % BUFFER_SIZE
         /\ fifo_normal' = Append(fifo_normal, it)
         /\ UNCHANGED <<urgent_buffer, urgent_in, urgent_out,
                        urgent_count, out, fifo_urgent>>

\* fifo_normal and fifo_urgent record what was stored
add_product(it, prio) ==
    IF BufferFull
    THEN UNCHANGED <<lanes, fifos>>
    ELSE IF prio # 0
         THEN /\ urgent_buffer' = [urgent_buffer EXCEPT ![urgent_in] = it]
              /\ urgent_in' = (urgent_in + 1) % BUFFER_SIZE
              /\ urgent_count' = urgent_count + 1
              /\ fifo_urgent' = Append(fifo_urgent, it)
              /\ UNCHANGED <<buffer, in, out, urgent_out, fifo_normal>>
         ELSE /\ buffer' = [buffer EXCEPT ![in] = it]
              /\ in' = (in + 1) % BUFFER_SIZE
              /\ fifo_normal' = Append(fifo_normal, it)
              /\ UNCHANGED <<urgent_buffer, urgent_in, urgent_out,
                             urgent_count, out, fifo_urgent>>

\* the value extract_product returns
extract_item ==
    IF StoreEmpty THEN -1
    ELSE IF urgent_count > 0 THEN urgent_buffer[urgent_out]
    ELSE buffer[out]

\* extract_product serving the normal lane first (used to test C5)
extract_product_normal_first ==
    IF StoreEmpty
    THEN UNCHANGED <<lanes, fifos>>
    ELSE IF in # out
         THEN /\ out' = (out + 1) % BUFFER_SIZE
              /\ fifo_normal' = Tail(fifo_normal)
              /\ UNCHANGED <<buffer, in, urgent_buffer, urgent_in,
                             urgent_out, urgent_count, fifo_urgent>>
         ELSE /\ urgent_out' = (urgent_out + 1) % BUFFER_SIZE
              /\ urgent_count' = urgent_count - 1
              /\ fifo_urgent' = Tail(fifo_urgent)
              /\ UNCHANGED <<buffer, in, out, urgent_buffer, urgent_in,
                             fifo_normal>>

\* the state change of extract_product
extract_product ==
    IF StoreEmpty
    THEN UNCHANGED <<lanes, fifos>>
    ELSE IF urgent_count > 0
         THEN /\ urgent_out' = (urgent_out + 1) % BUFFER_SIZE
              /\ urgent_count' = urgent_count - 1
              /\ fifo_urgent' = IF fifo_urgent = <<>> THEN <<>>
                                ELSE Tail(fifo_urgent)
              /\ UNCHANGED <<buffer, in, out, urgent_buffer, urgent_in,
                             fifo_normal>>
         ELSE /\ out' = (out + 1) % BUFFER_SIZE
              /\ fifo_normal' = IF fifo_normal = <<>> THEN <<>>
                                ELSE Tail(fifo_normal)
              /\ UNCHANGED <<buffer, in, urgent_buffer, urgent_in,
                             urgent_out, urgent_count, fifo_urgent>>

\* update_statistics counting the produced items only (used to test C11)
update_statistics_produced_only(produced, consumed) ==
    /\ total_produced' = total_produced + produced
    /\ total_consumed' = total_consumed

update_statistics(produced, consumed) ==
    /\ total_produced' = total_produced + produced
    /\ total_consumed' = total_consumed + consumed

\* ---------------------------------------------------------------- rand()
\* The inputs of the run are the values rand() returns (new.c:171-172). The
\* priority of every draw is free; the k-th item drawn with priority p has
\* the value MAX_PRIORITY * k + p (mod 100), so that the items of a run are
\* pairwise distinct and two items can be told apart when they are extracted.
rand_item(p) == (MAX_PRIORITY * rand_next[p] + p) % ItemRange

\* ---------------------------------------------------------------- gate
\* sem_wait(&empty) by thread t. woken records that t was parked when the
\* interrupt arrived and that the token it now takes is one the handler
\* posted: a handler token is taken only when no other token is left.
sem_wait_empty(t) ==
    /\ empty > 0
    /\ empty' = empty - 1
    /\ token' = [token EXCEPT ![t] = "empty"]
    /\ blocked_at_sigint' = blocked_at_sigint \ {t}
    /\ IF empty > shutdown_empty
       THEN /\ woken' = [woken EXCEPT ![t] = FALSE]
            /\ UNCHANGED shutdown_empty
       ELSE /\ woken' = [woken EXCEPT ![t] = (t \in blocked_at_sigint)]
            /\ shutdown_empty' = shutdown_empty - 1

sem_wait_full(t) ==
    /\ full > 0
    /\ full' = full - 1
    /\ token' = [token EXCEPT ![t] = "full"]
    /\ blocked_at_sigint' = blocked_at_sigint \ {t}
    /\ IF full > shutdown_full
       THEN /\ woken' = [woken EXCEPT ![t] = FALSE]
            /\ UNCHANGED shutdown_full
       ELSE /\ woken' = [woken EXCEPT ![t] = (t \in blocked_at_sigint)]
            /\ shutdown_full' = shutdown_full - 1

\* sem_post by thread t: the token t held goes back to a semaphore
sem_post_empty(t) ==
    /\ empty' = empty + 1
    /\ token' = [token EXCEPT ![t] = "none"]

sem_post_full(t) ==
    /\ full' = full + 1
    /\ token' = [token EXCEPT ![t] = "none"]

pthread_mutex_lock(t) == mutex = NoThread /\ mutex' = t
pthread_mutex_unlock == mutex' = NoThread

\* ---------------------------------------------------------------- Init
\* the store, the gate and the handler as main leaves them at new.c:331
InitShared ==
    /\ buffer = [i \in Slots |-> 0]
    /\ urgent_buffer = [i \in Slots |-> 0]
    /\ in = 0 /\ out = 0
    /\ urgent_in = 0 /\ urgent_out = 0 /\ urgent_count = 0
    /\ empty = BUFFER_SIZE /\ full = 0
    /\ mutex = NoThread
    /\ total_produced = 0 /\ total_consumed = 0
    /\ simulation_running = 1
    /\ rand_next = [p \in 0..(MAX_PRIORITY - 1) |-> 0]
    /\ main_pc = "join"
    /\ hpc = "idle" /\ host = NoThread /\ hi = 0
    /\ hpc2 = "idle" /\ host2 = NoThread /\ hi2 = 0
    /\ alert = "none"
    /\ fifo_normal = <<>> /\ fifo_urgent = <<>>
    /\ shutdown_empty = 0 /\ shutdown_full = 0
    /\ blocked_at_sigint = {}
    /\ stop_simulation = 0 /\ ui = 0
    /\ commands = 0 /\ signals = 0 /\ oplog = <<>>

Init ==
    /\ NUM_PRODUCERS \in 1..MaxProducers
    /\ NUM_CONSUMERS \in 1..MaxConsumers
    /\ simulation_count \in 1..MaxWork
    /\ InitShared
    /\ pc = [t \in Workers |->
               IF t[1] = "supplier" THEN "s_top" ELSE "r_top"]
    /\ item = [t \in Workers |-> 0]
    /\ priority = [t \in Workers |-> 0]
    /\ woken = [t \in Workers |-> FALSE]
    /\ token = [t \in Workers |-> "none"]

\* ---------------------------------------------------------------- supplier
\* new.c:164
SupplierLock(t) ==
    /\ t \in Suppliers /\ CanRun(t) /\ pc[t] = "s_top"
    /\ pthread_mutex_lock(t)
    /\ pc' = [pc EXCEPT ![t] = "s_chk"]
    /\ woken' = [woken EXCEPT ![t] = FALSE]
    /\ UNCHANGED <<again, alert, older, config, lanes, fifos, empty, full, simulation_count,
                   stats, locals, main_pc, handler, shutdown, token>>

\* the check at the top of the supplier's loop without the test of the
\* counter (used to test C18)
SupplierCheckAlways(t) ==
    /\ t \in Suppliers /\ CanRun(t) /\ pc[t] = "s_chk"
    /\ pthread_mutex_unlock
    /\ \E p \in 0..(MAX_PRIORITY - 1) :
           /\ priority' = [priority EXCEPT ![t] = p]
           /\ item' = [item EXCEPT ![t] = rand_item(p)]
           /\ rand_next' = [rand_next EXCEPT ![p] = @ + 1]
    /\ pc' = [pc EXCEPT ![t] = "s_wait"]
    /\ UNCHANGED <<again, alert, older, config, lanes, fifos, empty, full, simulation_count,
                   stats, main_pc, handler, shutdown, woken, token>>

\* new.c:165-173: leave the loop, or draw the next item and its priority
SupplierCheck(t) ==
    /\ t \in Suppliers /\ CanRun(t) /\ pc[t] = "s_chk"
    /\ pthread_mutex_unlock
    /\ IF simulation_count <= 0
       THEN /\ pc' = [pc EXCEPT ![t] = "done"]
            /\ UNCHANGED locals
       ELSE /\ \E p \in 0..(MAX_PRIORITY - 1) :
                   /\ priority' = [priority EXCEPT ![t] = p]
                   /\ item' = [item EXCEPT ![t] = rand_item(p)]
                   /\ rand_next' = [rand_next EXCEPT ![p] = @ + 1]
            /\ pc' = [pc EXCEPT ![t] = "s_wait"]
    /\ UNCHANGED <<again, alert, older, config, lanes, fifos, empty, full, simulation_count,
                   stats, main_pc, handler, shutdown, woken, token>>

\* new.c:175
SupplierWait(t) ==
    /\ t \in Suppliers /\ CanRun(t) /\ pc[t] = "s_wait"
    /\ sem_wait_empty(t)
    /\ pc' = [pc EXCEPT ![t] = "s_lock"]
    /\ UNCHANGED <<again, alert, older, config, lanes, fifos, full, mutex, simulation_count,
                   stats, locals, main_pc, handler, shutdown_full>>

\* the supplier entering its section without pthread_mutex_lock (used to
\* test C19)
SupplierEnterNoLock(t) ==
    /\ t \in Suppliers /\ CanRun(t) /\ pc[t] = "s_lock"
    /\ pc' = [pc EXCEPT ![t] = "s_cs"]
    /\ UNCHANGED <<again, alert, older, config, lanes, fifos, empty, full, mutex,
                   simulation_count, stats, locals, main_pc, handler, shutdown,
                   woken, token>>

\* new.c:176
SupplierEnter(t) ==
    /\ t \in Suppliers /\ CanRun(t) /\ pc[t] = "s_lock"
    /\ pthread_mutex_lock(t)
    /\ pc' = [pc EXCEPT ![t] = "s_cs"]
    /\ UNCHANGED <<again, alert, older, config, lanes, fifos, empty, full, simulation_count,
                   stats, locals, main_pc, handler, shutdown, woken, token>>

\* new.c:178-189: add_product, refresh_screen while the run is not
\* interrupted, update_statistics
SupplierProduce(t) ==
    /\ t \in Suppliers /\ CanRun(t) /\ pc[t] = "s_cs"
    /\ add_product(item[t], priority[t])
    /\ alert' = IF simulation_running = 1 THEN stock_alert(total_stock') ELSE alert
    /\ update_statistics(1, 0)
    /\ pthread_mutex_unlock
    /\ pc' = [pc EXCEPT ![t] = "s_post"]
    /\ UNCHANGED <<again, older, config, empty, full, simulation_count, locals, main_pc,
                   handler, shutdown, woken, token>>

\* new.c:190
SupplierPost(t) ==
    /\ t \in Suppliers /\ CanRun(t) /\ pc[t] = "s_post"
    /\ sem_post_full(t)
    /\ pc' = [pc EXCEPT ![t] = "s_top"]
    /\ UNCHANGED <<again, alert, older, config, lanes, fifos, empty, mutex, simulation_count,
                   stats, locals, main_pc, handler, shutdown, woken>>

\* ---------------------------------------------------------------- retailer
\* new.c:201
RetailerLock(t) ==
    /\ t \in Retailers /\ CanRun(t) /\ pc[t] = "r_top"
    /\ pthread_mutex_lock(t)
    /\ pc' = [pc EXCEPT ![t] = "r_chk"]
    /\ woken' = [woken EXCEPT ![t] = FALSE]
    /\ UNCHANGED <<again, alert, older, config, lanes, fifos, empty, full, simulation_count,
                   stats, locals, main_pc, handler, shutdown, token>>

\* new.c:202-207
RetailerCheck(t) ==
    /\ t \in Retailers /\ CanRun(t) /\ pc[t] = "r_chk"
    /\ pthread_mutex_unlock
    /\ IF simulation_count <= 0
       THEN /\ pc' = [pc EXCEPT ![t] = "done"]
            /\ UNCHANGED simulation_count
       ELSE /\ simulation_count' = simulation_count - 1
            /\ pc' = [pc EXCEPT ![t] = "r_wait"]
    /\ UNCHANGED <<again, alert, older, config, lanes, fifos, empty, full, stats, locals,
                   main_pc, handler, shutdown, woken, token>>

\* new.c:209
RetailerWait(t) ==
    /\ t \in Retailers /\ CanRun(t) /\ pc[t] = "r_wait"
    /\ sem_wait_full(t)
    /\ pc' = [pc EXCEPT ![t] = "r_lock"]
    /\ UNCHANGED <<again, alert, older, config, lanes, fifos, empty, mutex, simulation_count,
                   stats, locals, main_pc, handler, shutdown_empty>>

\* new.c:211
RetailerEnter(t) ==
    /\ t \in Retailers /\ CanRun(t) /\ pc[t] = "r_lock"
    /\ pthread_mutex_lock(t)
    /\ pc' = [pc EXCEPT ![t] = "r_cs"]
    /\ UNCHANGED <<again, alert, older, config, lanes, fifos, empty, full, simulation_count,
                   stats, locals, main_pc, handler, shutdown, woken, token>>

\* new.c:212-239
RetailerConsume(t) ==
    /\ t \in Retailers /\ CanRun(t) /\ pc[t] = "r_cs"
    /\ pthread_mutex_unlock
    /\ IF StoreEmpty
       THEN /\ pc' = [pc EXCEPT ![t] = "r_repost"]
            /\ UNCHANGED <<lanes, fifos, stats, item, alert>>
       ELSE /\ item' = [item EXCEPT ![t] = extract_item]
            /\ extract_product
            /\ alert' = IF simulation_running = 1 THEN stock_alert(total_stock')
                        ELSE alert
            /\ IF extract_item = -1
               THEN /\ pc' = [pc EXCEPT ![t] = "r_repost"]
                    /\ UNCHANGED stats
               ELSE /\ update_statistics(0, 1)
                    /\ pc' = [pc EXCEPT ![t] = "r_post"]
    /\ UNCHANGED <<again, older, config, empty, full, simulation_count, priority,
                   rand_next, main_pc, handler, shutdown, woken, token>>

\* the retry without the sem_post(&full) of new.c:214 (used to test C7)
RetailerRepostLost(t) ==
    /\ t \in Retailers /\ CanRun(t) /\ pc[t] = "r_repost"
    /\ token' = [token EXCEPT ![t] = "none"]
    /\ pc' = [pc EXCEPT ![t] = "r_top"]
    /\ UNCHANGED <<again, alert, older, config, lanes, fifos, empty, full, mutex,
                   simulation_count, stats, locals, main_pc, handler,
                   shutdown, woken>>

\* the retry with the token given to empty (used to test C16)
RetailerRepostEmpty(t) ==
    /\ t \in Retailers /\ CanRun(t) /\ pc[t] = "r_repost"
    /\ sem_post_empty(t)
    /\ pc' = [pc EXCEPT ![t] = "r_top"]
    /\ UNCHANGED <<again, alert, older, config, lanes, fifos, full, mutex,
                   simulation_count, stats, locals, main_pc, handler,
                   shutdown, woken>>

\* new.c:214 and new.c:233: the token goes back to full
RetailerRepost(t) ==
    /\ t \in Retailers /\ CanRun(t) /\ pc[t] = "r_repost"
    /\ sem_post_full(t)
    /\ pc' = [pc EXCEPT ![t] = "r_top"]
    /\ UNCHANGED <<again, alert, older, config, lanes, fifos, empty, mutex, simulation_count,
                   stats, locals, main_pc, handler, shutdown, woken>>

\* new.c:240
RetailerPost(t) ==
    /\ t \in Retailers /\ CanRun(t) /\ pc[t] = "r_post"
    /\ sem_post_empty(t)
    /\ pc' = [pc EXCEPT ![t] = "r_top"]
    /\ UNCHANGED <<again, alert, older, config, lanes, fifos, full, mutex, simulation_count,
                   stats, locals, main_pc, handler, shutdown, woken>>

\* ---------------------------------------------------------------- handler
\* SIGINT is delivered to any thread that still runs (new.c:286, 100)
Sigint ==
    /\ Alive /\ hpc = "idle"
    /\ \E t \in {MainThread} \cup {w \in Workers : pc[w] # "done"} :
           host' = t
    /\ hpc' = "h_flag"
    /\ blocked_at_sigint' =
           {w \in Suppliers : pc[w] = "s_wait" /\ empty = 0}
           \cup {w \in Retailers : pc[w] = "r_wait" /\ full = 0}
    /\ UNCHANGED <<again, alert, older, config, lanes, fifos, empty, full, mutex,
                   simulation_count, stats, simulation_running, pc, locals,
                   main_pc, hi, shutdown_empty, shutdown_full, woken, token>>

\* new.c:102-107: the flag is cleared and endwin() takes the screen down
HandlerFlag ==
    /\ Alive /\ hpc = "h_flag"
    /\ simulation_running' = 0
    /\ alert' = "none"
    /\ hpc' = "h_lock"
    /\ UNCHANGED <<again, older, config, lanes, fifos, empty, full, mutex,
                   simulation_count, stats, pc, locals, main_pc, host, hi,
                   shutdown, woken, token>>

\* new.c:110: blocks for ever when the interrupted thread owns the mutex
HandlerLock ==
    /\ Alive /\ hpc = "h_lock"
    /\ pthread_mutex_lock(host)
    /\ hpc' = "h_cs"
    /\ UNCHANGED <<again, alert, older, config, lanes, fifos, empty, full, simulation_count,
                   stats, simulation_running, pc, locals, main_pc, host, hi,
                   shutdown, woken, token>>

\* new.c:111-112
HandlerStop ==
    /\ Alive /\ hpc = "h_cs"
    /\ simulation_count' = 0
    /\ pthread_mutex_unlock
    /\ hpc' = "h_post"
    /\ hi' = 0
    /\ UNCHANGED <<again, alert, older, config, lanes, fifos, empty, full, stats,
                   simulation_running, pc, locals, main_pc, host, shutdown,
                   woken, token>>

\* new.c:115: one sem_post(&empty) per configured supplier
HandlerPostEmpty ==
    /\ Alive /\ hpc = "h_post" /\ hi < NUM_PRODUCERS
    /\ empty' = empty + 1
    /\ shutdown_empty' = shutdown_empty + 1
    /\ hi' = hi + 1
    /\ UNCHANGED <<again, alert, older, config, lanes, fifos, full, mutex, simulation_count,
                   stats, simulation_running, pc, locals, main_pc, hpc,
                   host, shutdown_full, blocked_at_sigint, woken, token>>

\* new.c:116: one sem_post(&full) per configured retailer
HandlerPostFull ==
    /\ Alive /\ hpc = "h_post" /\ hi >= NUM_PRODUCERS
    /\ hi < NUM_PRODUCERS + NUM_CONSUMERS
    /\ full' = full + 1
    /\ shutdown_full' = shutdown_full + 1
    /\ hi' = hi + 1
    /\ UNCHANGED <<again, alert, older, config, lanes, fifos, empty, mutex, simulation_count,
                   stats, simulation_running, pc, locals, main_pc, hpc,
                   host, shutdown_empty, blocked_at_sigint, woken, token>>

\* new.c:118-121: final report, close the log, exit(0)
HandlerExit ==
    /\ Alive /\ hpc = "h_post" /\ hi = NUM_PRODUCERS + NUM_CONSUMERS
    /\ hpc' = "h_exited"
    /\ UNCHANGED <<again, alert, older, config, lanes, fifos, empty, full, mutex,
                   simulation_count, stats, simulation_running, pc, locals,
                   main_pc, host, hi, shutdown, woken, token>>

\* ---------------------------------------------------------------- main
\* new.c:333-345: all workers joined, endwin(), final report, return 0
MainReturn ==
    /\ CanRun(MainThread) /\ main_pc = "join"
    /\ \A w \in Workers : pc[w] = "done"
    /\ main_pc' = "returned"
    /\ alert' = "none"
    /\ UNCHANGED <<again, older, config, lanes, fifos, empty, full, mutex,
                   simulation_count, stats, pc, locals, handler, shutdown,
                   woken, token>>

\* ---------------------------------------------------------------- Next
SupplierStep(t) ==
    \/ SupplierLock(t) \/ SupplierCheck(t) \/ SupplierWait(t)
    \/ SupplierEnter(t) \/ SupplierProduce(t) \/ SupplierPost(t)

RetailerStep(t) ==
    \/ RetailerLock(t) \/ RetailerCheck(t) \/ RetailerWait(t)
    \/ RetailerEnter(t) \/ RetailerConsume(t) \/ RetailerRepost(t)
    \/ RetailerPost(t)

HandlerStep ==
    \/ HandlerFlag \/ HandlerLock \/ HandlerStop
    \/ HandlerPostEmpty \/ HandlerPostFull \/ HandlerExit

Next ==
    \/ \E t \in Suppliers : SupplierStep(t)
    \/ \E t \in Retailers : RetailerStep(t)
    \/ Sigint
    \/ HandlerStep
    \/ MainReturn

Spec == Init /\ [][Next]_vars

\* the runs of new.c in which no interrupt is delivered
NextQuiet ==
    \/ \E t \in Suppliers : SupplierStep(t)
    \/ \E t \in Retailers : RetailerStep(t)
    \/ MainReturn

SpecQuiet == Init /\ [][NextQuiet]_vars

\* Scenario A: 1 supplier, 1 retailer and the work bound 5 entered at
\* startup (new.c:298-314), no interrupt
InitScenarioA ==
    /\ NUM_PRODUCERS = 1
    /\ NUM_CONSUMERS = 1
    /\ simulation_count = 5
    /\ InitShared
    /\ pc = [t \in Workers |->
               IF t[1] = "supplier" THEN "s_top" ELSE "r_top"]
    /\ item = [t \in Workers |-> 0]
    /\ priority = [t \in Workers |-> 0]
    /\ woken = [t \in Workers |-> FALSE]
    /\ token = [t \in Workers |-> "none"]

SpecScenarioA == InitScenarioA /\ [][NextQuiet]_vars

\* a run of new.c with 1 supplier, 1 retailer and the work bound
\* BUFFER_SIZE entered at startup (new.c:298-314), no interrupt
InitLongRun ==
    /\ NUM_PRODUCERS = 1
    /\ NUM_CONSUMERS = 1
    /\ simulation_count = BUFFER_SIZE
    /\ InitShared
    /\ pc = [t \in Workers |->
               IF t[1] = "supplier" THEN "s_top" ELSE "r_top"]
    /\ item = [t \in Workers |-> 0]
    /\ priority = [t \in Workers |-> 0]
    /\ woken = [t \in Workers |-> FALSE]
    /\ token = [t \in Workers |-> "none"]

SpecLongRun == InitLongRun /\ [][NextQuiet]_vars

\* ---------------------------------------------------------------- monitor
\* refresh_screen on its own (new.c:74-81), called by worker t inside its
\* critical section: by a supplier after add_product (new.c:181-183), by a
\* retailer after extract_product (new.c:225-227)
refresh_screen(t) ==
    /\ pc[t] \in {"s_refresh", "r_refresh"}
    /\ simulation_running = 1
    /\ alert' = stock_alert(total_stock)
    /\ pc' = [pc EXCEPT ![t] = "shown"]
    /\ UNCHANGED <<again, older, config, lanes, fifos, empty, full, mutex,
                   simulation_count, stats, locals, main_pc, handler,
                   shutdown, woken, token>>

\* The states in which refresh_screen is entered. The supplier has stored a
\* normal and b urgent items since the start and nothing was turned away;
\* the caller t is the supplier, which has just stored the last of them, or
\* the retailer, which has just extracted the first of them. The screen
\* shows what an earlier call left on it.
InitMonitor ==
    /\ NUM_PRODUCERS = 1
    /\ NUM_CONSUMERS = 1
    /\ \E a \in 0..(BUFFER_SIZE - 1), b \in 0..BUFFER_SIZE, t \in Workers :
         LET taken == IF t[1] = "retailer" THEN 1 ELSE 0
             urgent_taken == IF taken = 1 /\ b > 0 THEN 1 ELSE 0
             normal_taken == taken - urgent_taken
         IN  /\ a + b \in 1..BUFFER_SIZE
             /\ in = a /\ out = normal_taken
             /\ urgent_in = b % BUFFER_SIZE /\ urgent_out = urgent_taken
             /\ urgent_count = b - urgent_taken
             /\ buffer = [i \in Slots |->
                            IF i < a THEN (MAX_PRIORITY * i) % ItemRange
                            ELSE 0]
             /\ urgent_buffer = [i \in Slots |->
                                   IF i < b
                                   THEN (MAX_PRIORITY * i + 1) % ItemRange
                                   ELSE 0]
             /\ fifo_normal =
                    [i \in 1..(a - normal_taken) |->
                        (MAX_PRIORITY * (i - 1 + normal_taken)) % ItemRange]
             /\ fifo_urgent =
                    [i \in 1..(b - urgent_taken) |->
                        (MAX_PRIORITY * (i - 1 + urgent_taken) + 1)
                            % ItemRange]
             /\ rand_next = [p \in 0..(MAX_PRIORITY - 1) |->
                               IF p = 0 THEN a ELSE b]
             /\ empty = BUFFER_SIZE - (a + b) /\ full = a + b - 1
             /\ total_produced = a + b - 1 + taken /\ total_consumed = 0
             /\ simulation_count \in (1 - taken)..(MaxWork - taken)
             /\ mutex = t
             /\ pc = [w \in Workers |->
                        IF w = t
                        THEN (IF taken = 1 THEN "r_refresh" ELSE "s_refresh")
                        ELSE (IF taken = 1 THEN "s_top" ELSE "r_top")]
             /\ token = [w \in Workers |->
                           IF w # t THEN "none"
                           ELSE IF taken = 1 THEN "full" ELSE "empty"]
             /\ \E p \in 0..(MAX_PRIORITY - 1) :
                    /\ taken = 0 => (IF p = 0 THEN a > 0 ELSE b > 0)
                    /\ taken = 1 => p = 0
                    /\ priority = [w \in Workers |-> IF w = t THEN p ELSE 0]
                    /\ item = [w \in Workers |->
                                 IF w # t THEN 0
                                 ELSE IF taken = 1
                                      THEN (IF b > 0 THEN 1 ELSE 0)
                                 ELSE IF p = 0
                                      THEN (MAX_PRIORITY * (a - 1)) % ItemRange
                                 ELSE (MAX_PRIORITY * (b - 1) + 1) % ItemRange]
    /\ alert \in {"none", "LOW", "NORMAL", "HIGH"}
    /\ simulation_running = 1
    /\ woken = [w \in Workers |-> FALSE]
    /\ main_pc = "join"
    /\ hpc = "idle" /\ host = NoThread /\ hi = 0
    /\ hpc2 = "idle" /\ host2 = NoThread /\ hi2 = 0
    /\ shutdown_empty = 0 /\ shutdown_full = 0
    /\ blocked_at_sigint = {}
    /\ stop_simulation = 0 /\ ui = 0
    /\ commands = 0 /\ signals = 0 /\ oplog = <<>>

NextMonitor == \E t \in Workers : refresh_screen(t)

SpecMonitor == InitMonitor /\ [][NextMonitor]_vars

\* ---------------------------------------------------------------- SIGINT again
\* A second SIGINT while the handler runs. signal() leaves the handler
\* installed and blocks SIGINT in the thread that runs it only (new.c:286),
\* so the second one is delivered to another thread that still runs and the
\* handler runs there, next to the first.
SigintAgain ==
    /\ Alive /\ hpc # "idle" /\ hpc2 = "idle"
    /\ \E t \in ({MainThread} \cup {w \in Workers : pc[w] # "done"})
                  \ {host} :
           host2' = t
    /\ hpc2' = "h_flag"
    /\ UNCHANGED <<alert, older, config, lanes, fifos, empty, full, mutex,
                   simulation_count, stats, pc, locals, main_pc, handler,
                   hi2, shutdown, woken, token>>

\* new.c:102 with the switch of the flag in place of the store of 0 (used
\* to test C12)
HandlerFlagAgainToggle ==
    /\ Alive /\ hpc2 = "h_flag"
    /\ simulation_running' = 1 - simulation_running
    /\ alert' = "none"
    /\ hpc2' = "h_lock"
    /\ UNCHANGED <<older, config, lanes, fifos, empty, full, mutex,
                   simulation_count, stats, pc, locals, main_pc, hpc, host,
                   hi, host2, hi2, shutdown, woken, token>>

\* new.c:102-107
HandlerFlagAgain ==
    /\ Alive /\ hpc2 = "h_flag"
    /\ simulation_running' = 0
    /\ alert' = "none"
    /\ hpc2' = "h_lock"
    /\ UNCHANGED <<older, config, lanes, fifos, empty, full, mutex,
                   simulation_count, stats, pc, locals, main_pc, hpc, host,
                   hi, host2, hi2, shutdown, woken, token>>

\* new.c:110
HandlerLockAgain ==
    /\ Alive /\ hpc2 = "h_lock"
    /\ pthread_mutex_lock(host2)
    /\ hpc2' = "h_cs"
    /\ UNCHANGED <<alert, older, config, lanes, fifos, empty, full,
                   simulation_count, stats, pc, locals, main_pc, handler,
                   host2, hi2, shutdown, woken, token>>

\* new.c:111-112
HandlerStopAgain ==
    /\ Alive /\ hpc2 = "h_cs"
    /\ simulation_count' = 0
    /\ pthread_mutex_unlock
    /\ hpc2' = "h_post"
    /\ hi2' = 0
    /\ UNCHANGED <<alert, older, config, lanes, fifos, empty, full, stats,
                   pc, locals, main_pc, handler, host2, shutdown, woken,
                   token>>

\* new.c:115
HandlerPostEmptyAgain ==
    /\ Alive /\ hpc2 = "h_post" /\ hi2 < NUM_PRODUCERS
    /\ empty' = empty + 1
    /\ shutdown_empty' = shutdown_empty + 1
    /\ hi2' = hi2 + 1
    /\ UNCHANGED <<alert, older, config, lanes, fifos, full, mutex,
                   simulation_count, stats, pc, locals, main_pc, handler,
                   hpc2, host2, shutdown_full, blocked_at_sigint, woken,
                   token>>

\* new.c:116
HandlerPostFullAgain ==
    /\ Alive /\ hpc2 = "h_post" /\ hi2 >= NUM_PRODUCERS
    /\ hi2 < NUM_PRODUCERS + NUM_CONSUMERS
    /\ full' = full + 1
    /\ shutdown_full' = shutdown_full + 1
    /\ hi2' = hi2 + 1
    /\ UNCHANGED <<alert, older, config, lanes, fifos, empty, mutex,
                   simulation_count, stats, pc, locals, main_pc, handler,
                   hpc2, host2, shutdown_empty, blocked_at_sigint, woken,
                   token>>

\* new.c:118-121
HandlerExitAgain ==
    /\ Alive /\ hpc2 = "h_post" /\ hi2 = NUM_PRODUCERS + NUM_CONSUMERS
    /\ hpc2' = "h_exited"
    /\ UNCHANGED <<alert, older, config, lanes, fifos, empty, full, mutex,
                   simulation_count, stats, pc, locals, main_pc, handler,
                   host2, hi2, shutdown, woken, token>>

HandlerAgainStep ==
    \/ HandlerFlagAgain \/ HandlerLockAgain \/ HandlerStopAgain
    \/ HandlerPostEmptyAgain \/ HandlerPostFullAgain \/ HandlerExitAgain

\* new.c started with the work bound 1
InitAgain == Init /\ simulation_count = 1

\* ================================================================
\* The older variant of the program (src/unnamed/part_000): the same store
\* and gate, a stop_simulation flag in place of the work counter, a handler
\* that returns, and a thread that reads commands from the terminal.
UserThread == <<"user", 0>>
newer == <<simulation_count, simulation_running>>

\* ---------------------------------------------------------------- bounds
\* iterations a supplier / a retailer of the older variant may start
MaxRounds == 2
\* command lines read while suppliers and retailers run
MaxOldCommands == 2
\* command lines read when the command thread runs alone
MaxCommands == 8
\* interrupts delivered to the older variant
MaxSignals == 1

InitOlder(producers, consumers) ==
    /\ NUM_PRODUCERS \in producers
    /\ NUM_CONSUMERS \in consumers
    /\ simulation_count = 0
    /\ InitShared
    /\ pc = [t \in Workers \cup {UserThread} |->
               IF t[1] = "supplier" THEN "os_top"
               ELSE IF t[1] = "retailer" THEN "or_top" ELSE "u_top"]
    /\ item = [t \in Workers \cup {UserThread} |-> 0]
    /\ priority = [t \in Workers \cup {UserThread} |-> 0]
    /\ woken = [t \in Workers \cup {UserThread} |-> FALSE]
    /\ token = [t \in Workers \cup {UserThread} |-> "none"]

\* ---------------------------------------------------------------- supplier
\* part_000:90-93
OldSupplierDraw(t) ==
    /\ t \in Suppliers /\ CanRun(t) /\ pc[t] = "os_top"
    /\ IF stop_simulation # 0
       THEN /\ pc' = [pc EXCEPT ![t] = "done"]
            /\ UNCHANGED locals
       ELSE /\ total_produced < MaxRounds
            /\ \E p \in 0..(MAX_PRIORITY - 1) :
                   /\ priority' = [priority EXCEPT ![t] = p]
                   /\ item' = [item EXCEPT ![t] = rand_item(p)]
                   /\ rand_next' = [rand_next EXCEPT ![p] = @ + 1]
            /\ pc' = [pc EXCEPT ![t] = "os_chk"]
    /\ UNCHANGED <<again, alert, older, newer, config, lanes, fifos, empty, full, mutex,
                   stats, main_pc, hpc, host, hi, shutdown, woken, token>>

\* part_000:95
OldSupplierRecheck(t) ==
    /\ t \in Suppliers /\ CanRun(t) /\ pc[t] = "os_chk"
    /\ pc' = [pc EXCEPT ![t] =
                 IF stop_simulation # 0 THEN "done" ELSE "os_wait"]
    /\ UNCHANGED <<again, alert, older, newer, config, lanes, fifos, empty, full, mutex,
                   stats, locals, main_pc, hpc, host, hi, shutdown, woken,
                   token>>

\* part_000:96
OldSupplierWait(t) ==
    /\ t \in Suppliers /\ CanRun(t) /\ pc[t] = "os_wait"
    /\ sem_wait_empty(t)
    /\ pc' = [pc EXCEPT ![t] = "os_lock"]
    /\ UNCHANGED <<again, alert, older, newer, config, lanes, fifos, full, mutex, stats,
                   locals, main_pc, hpc, host, hi, shutdown_full>>

\* part_000:98
OldSupplierEnter(t) ==
    /\ t \in Suppliers /\ CanRun(t) /\ pc[t] = "os_lock"
    /\ pthread_mutex_lock(t)
    /\ pc' = [pc EXCEPT ![t] = "os_cs"]
    /\ UNCHANGED <<again, alert, older, newer, config, lanes, fifos, empty, full, stats,
                   locals, main_pc, hpc, host, hi, shutdown, woken, token>>

\* part_000:99-111
OldSupplierProduce(t) ==
    /\ t \in Suppliers /\ CanRun(t) /\ pc[t] = "os_cs"
    /\ pthread_mutex_unlock
    /\ IF stop_simulation # 0
       THEN /\ pc' = [pc EXCEPT ![t] = "os_back"]
            /\ UNCHANGED <<lanes, fifos, stats, alert>>
       ELSE /\ add_product(item[t], priority[t])
            /\ update_statistics(1, 0)
            /\ alert' = stock_alert(total_stock')
            /\ pc' = [pc EXCEPT ![t] = "os_post"]
    /\ UNCHANGED <<again, older, newer, config, empty, full, locals, main_pc, hpc,
                   host, hi, shutdown, woken, token>>

\* part_000:101
OldSupplierGiveBack(t) ==
    /\ t \in Suppliers /\ CanRun(t) /\ pc[t] = "os_back"
    /\ sem_post_empty(t)
    /\ pc' = [pc EXCEPT ![t] = "done"]
    /\ UNCHANGED <<again, alert, older, newer, config, lanes, fifos, full, mutex, stats,
                   locals, main_pc, hpc, host, hi, shutdown, woken>>

\* part_000:112
OldSupplierPost(t) ==
    /\ t \in Suppliers /\ CanRun(t) /\ pc[t] = "os_post"
    /\ sem_post_full(t)
    /\ pc' = [pc EXCEPT ![t] = "os_top"]
    /\ UNCHANGED <<again, alert, older, newer, config, lanes, fifos, empty, mutex, stats,
                   locals, main_pc, hpc, host, hi, shutdown, woken>>

\* ---------------------------------------------------------------- retailer
\* part_000:120-121
OldRetailerTop(t) ==
    /\ t \in Retailers /\ CanRun(t) /\ pc[t] = "or_top"
    /\ IF stop_simulation # 0
       THEN pc' = [pc EXCEPT ![t] = "done"]
       ELSE /\ total_consumed < MaxRounds
            /\ pc' = [pc EXCEPT ![t] = "or_wait"]
    /\ UNCHANGED <<again, alert, older, newer, config, lanes, fifos, empty, full, mutex,
                   stats, locals, main_pc, hpc, host, hi, shutdown, woken,
                   token>>

\* part_000:122
OldRetailerWait(t) ==
    /\ t \in Retailers /\ CanRun(t) /\ pc[t] = "or_wait"
    /\ sem_wait_full(t)
    /\ pc' = [pc EXCEPT ![t] = "or_lock"]
    /\ UNCHANGED <<again, alert, older, newer, config, lanes, fifos, empty, mutex, stats,
                   locals, main_pc, hpc, host, hi, shutdown_empty>>

\* part_000:124
OldRetailerEnter(t) ==
    /\ t \in Retailers /\ CanRun(t) /\ pc[t] = "or_lock"
    /\ pthread_mutex_lock(t)
    /\ pc' = [pc EXCEPT ![t] = "or_cs"]
    /\ UNCHANGED <<again, alert, older, newer, config, lanes, fifos, empty, full, stats,
                   locals, main_pc, hpc, host, hi, shutdown, woken, token>>

\* part_000:125-137: the result of extract_product is not looked at
OldRetailerConsume(t) ==
    /\ t \in Retailers /\ CanRun(t) /\ pc[t] = "or_cs"
    /\ pthread_mutex_unlock
    /\ IF stop_simulation # 0
       THEN /\ pc' = [pc EXCEPT ![t] = "or_back"]
            /\ UNCHANGED <<lanes, fifos, stats, item, alert>>
       ELSE /\ item' = [item EXCEPT ![t] = extract_item]
            /\ extract_product
            /\ update_statistics(0, 1)
            /\ alert' = stock_alert(total_stock')
            /\ pc' = [pc EXCEPT ![t] = "or_post"]
    /\ UNCHANGED <<again, older, newer, config, empty, full, priority, rand_next,
                   main_pc, hpc, host, hi, shutdown, woken, token>>

\* part_000:127
OldRetailerGiveBack(t) ==
    /\ t \in Retailers /\ CanRun(t) /\ pc[t] = "or_back"
    /\ sem_post_full(t)
    /\ pc' = [pc EXCEPT ![t] = "done"]
    /\ UNCHANGED <<again, alert, older, newer, config, lanes, fifos, empty, mutex, stats,
                   locals, main_pc, hpc, host, hi, shutdown, woken>>

\* part_000:138
OldRetailerPost(t) ==
    /\ t \in Retailers /\ CanRun(t) /\ pc[t] = "or_post"
    /\ sem_post_empty(t)
    /\ pc' = [pc EXCEPT ![t] = "or_top"]
    /\ UNCHANGED <<again, alert, older, newer, config, lanes, fifos, full, mutex, stats,
                   locals, main_pc, hpc, host, hi, shutdown, woken>>

\* ---------------------------------------------------------------- commands
UserCommands == {"u_status", "u_add", "u_remove", "u_exit", "u_other"}

\* part_000:202-209: the next command line, one of at most limit lines
UserRead(limit) ==
    /\ CanRun(UserThread) /\ pc[UserThread] = "u_top"
    /\ IF stop_simulation # 0
       THEN /\ pc' = [pc EXCEPT ![UserThread] = "done"]
            /\ UNCHANGED commands
       ELSE /\ commands < limit
            /\ commands' = commands + 1
            /\ \E c \in UserCommands : pc' = [pc EXCEPT ![UserThread] = c]
    /\ UNCHANGED <<again, alert, stop_simulation, ui, signals, oplog, newer, config,
                   lanes, fifos, empty, full, mutex, stats, locals, main_pc,
                   hpc, host, hi, shutdown, woken, token>>

\* part_000:210-226, 243-250: the command is looked up; "add" reads the item
\* and its priority, "exit" raises stop_simulation
UserDispatch ==
    /\ CanRun(UserThread) /\ pc[UserThread] \in UserCommands
    /\ IF stop_simulation # 0
       THEN /\ pc' = [pc EXCEPT ![UserThread] = "done"]
            /\ UNCHANGED <<locals, stop_simulation, ui>>
       ELSE CASE pc[UserThread] = "u_status" ->
                 /\ pc' = [pc EXCEPT ![UserThread] = "u_status_lock"]
                 /\ UNCHANGED <<locals, stop_simulation, ui>>
              [] pc[UserThread] = "u_add" ->
                 /\ \E p \in 0..(MAX_PRIORITY - 1) :
                        /\ priority' = [priority EXCEPT ![UserThread] = p]
                        /\ item' = [item EXCEPT ![UserThread] = rand_item(p)]
                        /\ rand_next' = [rand_next EXCEPT ![p] = @ + 1]
                 /\ pc' = [pc EXCEPT ![UserThread] = "u_add_lock"]
                 /\ UNCHANGED <<stop_simulation, ui>>
              [] pc[UserThread] = "u_remove" ->
                 /\ pc' = [pc EXCEPT ![UserThread] = "u_remove_lock"]
                 /\ UNCHANGED <<locals, stop_simulation, ui>>
              [] pc[UserThread] = "u_exit" ->
                 /\ stop_simulation' = 1
                 /\ ui' = 0
                 /\ pc' = [pc EXCEPT ![UserThread] = "u_exit_post"]
                 /\ UNCHANGED locals
              [] OTHER ->
                 /\ pc' = [pc EXCEPT ![UserThread] = "u_top"]
                 /\ UNCHANGED <<locals, stop_simulation, ui>>
    /\ UNCHANGED <<again, alert, commands, signals, oplog, newer, config, lanes, fifos,
                   empty, full, mutex, stats, main_pc, hpc, host, hi,
                   shutdown, woken, token>>

\* part_000:213, 228, 234
UserLock ==
    /\ CanRun(UserThread)
    /\ pc[UserThread] \in {"u_status_lock", "u_add_lock", "u_remove_lock"}
    /\ pthread_mutex_lock(UserThread)
    /\ pc' = [pc EXCEPT ![UserThread] =
                 CASE pc[UserThread] = "u_status_lock" -> "u_status_cs"
                   [] pc[UserThread] = "u_add_lock" -> "u_add_cs"
                   [] OTHER -> "u_remove_cs"]
    /\ UNCHANGED <<again, alert, older, newer, config, lanes, fifos, empty, full, stats,
                   locals, main_pc, hpc, host, hi, shutdown, woken, token>>

\* part_000:214-215
UserStatus ==
    /\ CanRun(UserThread) /\ pc[UserThread] = "u_status_cs"
    /\ pthread_mutex_unlock
    /\ pc' = [pc EXCEPT ![UserThread] = "u_top"]
    /\ UNCHANGED <<again, alert, older, newer, config, lanes, fifos, empty, full, stats,
                   locals, main_pc, hpc, host, hi, shutdown, woken, token>>

\* part_000:229-232
UserAdd ==
    /\ CanRun(UserThread) /\ pc[UserThread] = "u_add_cs"
    /\ add_product(item[UserThread], priority[UserThread])
    /\ oplog' = Append(oplog,
                       <<"add", item[UserThread], priority[UserThread]>>)
    /\ alert' = stock_alert(total_stock')
    /\ pthread_mutex_unlock
    /\ pc' = [pc EXCEPT ![UserThread] = "u_top"]
    /\ UNCHANGED <<again, stop_simulation, ui, commands, signals, newer, config,
                   empty, full, stats, locals, main_pc, hpc, host, hi,
                   shutdown, woken, token>>

\* part_000:235-242
UserRemove ==
    /\ CanRun(UserThread) /\ pc[UserThread] = "u_remove_cs"
    /\ IF normal_count > 0 \/ urgent_count > 0
       THEN /\ item' = [item EXCEPT ![UserThread] = extract_item]
            /\ extract_product
            /\ oplog' = Append(oplog, <<"remove", extract_item>>)
            /\ alert' = stock_alert(total_stock')
       ELSE UNCHANGED <<lanes, fifos, item, oplog, alert>>
    /\ pthread_mutex_unlock
    /\ pc' = [pc EXCEPT ![UserThread] = "u_top"]
    /\ UNCHANGED <<again, stop_simulation, ui, commands, signals, newer, config,
                   empty, full, stats, priority, rand_next, main_pc, hpc,
                   host, hi, shutdown, woken, token>>

\* part_000:246
UserExitPostEmpty ==
    /\ CanRun(UserThread) /\ pc[UserThread] = "u_exit_post"
    /\ ui < NUM_PRODUCERS
    /\ empty' = empty + 1
    /\ shutdown_empty' = shutdown_empty + 1
    /\ ui' = ui + 1
    /\ UNCHANGED <<again, alert, stop_simulation, commands, signals, oplog, newer, config,
                   lanes, fifos, full, mutex, stats, pc, locals, main_pc,
                   hpc, host, hi, shutdown_full, blocked_at_sigint, woken,
                   token>>

\* part_000:247
UserExitPostFull ==
    /\ CanRun(UserThread) /\ pc[UserThread] = "u_exit_post"
    /\ ui >= NUM_PRODUCERS /\ ui < NUM_PRODUCERS + NUM_CONSUMERS
    /\ full' = full + 1
    /\ shutdown_full' = shutdown_full + 1
    /\ ui' = ui + 1
    /\ UNCHANGED <<again, alert, stop_simulation, commands, signals, oplog, newer, config,
                   lanes, fifos, empty, mutex, stats, pc, locals, main_pc,
                   hpc, host, hi, shutdown_empty, blocked_at_sigint, woken,
                   token>>

\* part_000:248
UserExitDone ==
    /\ CanRun(UserThread) /\ pc[UserThread] = "u_exit_post"
    /\ ui = NUM_PRODUCERS + NUM_CONSUMERS
    /\ pc' = [pc EXCEPT ![UserThread] = "done"]
    /\ UNCHANGED <<again, alert, older, newer, config, lanes, fifos, empty, full, mutex,
                   stats, locals, main_pc, hpc, host, hi, shutdown, woken,
                   token>>

\* ---------------------------------------------------------------- handler
\* part_000:53-55: SIGINT on any thread that still runs, at most limit times
OldSigintWithin(limit) ==
    /\ Alive /\ hpc = "idle" /\ signals < limit
    /\ \E t \in {MainThread}
               \cup {w \in Workers \cup {UserThread} : pc[w] # "done"} :
           host' = t
    /\ signals' = signals + 1
    /\ stop_simulation' = 1
    /\ hpc' = "o_post"
    /\ hi' = 0
    /\ blocked_at_sigint' =
           {w \in Suppliers : pc[w] = "os_wait" /\ empty = 0}
           \cup {w \in Retailers : pc[w] = "or_wait" /\ full = 0}
    /\ UNCHANGED <<again, alert, ui, commands, oplog, newer, config, lanes, fifos, empty,
                   full, mutex, stats, pc, locals, main_pc, shutdown_empty,
                   shutdown_full, woken, token>>

OldSigint == OldSigintWithin(MaxSignals)

\* part_000:58
OldHandlerPostEmpty ==
    /\ hpc = "o_post" /\ hi < NUM_PRODUCERS
    /\ empty' = empty + 1
    /\ shutdown_empty' = shutdown_empty + 1
    /\ hi' = hi + 1
    /\ UNCHANGED <<again, alert, older, newer, config, lanes, fifos, full, mutex, stats,
                   pc, locals, main_pc, hpc, host, shutdown_full,
                   blocked_at_sigint, woken, token>>

\* part_000:59
OldHandlerPostFull ==
    /\ hpc = "o_post" /\ hi >= NUM_PRODUCERS
    /\ hi < NUM_PRODUCERS + NUM_CONSUMERS
    /\ full' = full + 1
    /\ shutdown_full' = shutdown_full + 1
    /\ hi' = hi + 1
    /\ UNCHANGED <<again, alert, older, newer, config, lanes, fifos, empty, mutex, stats,
                   pc, locals, main_pc, hpc, host, shutdown_empty,
                   blocked_at_sigint, woken, token>>

\* part_000:60: the handler returns and the interrupted thread goes on
OldHandlerReturn ==
    /\ hpc = "o_post" /\ hi = NUM_PRODUCERS + NUM_CONSUMERS
    /\ hpc' = "idle"
    /\ host' = NoThread
    /\ UNCHANGED <<again, alert, older, newer, config, lanes, fifos, empty, full, mutex,
                   stats, pc, locals, main_pc, hi, shutdown, woken, token>>

\* ---------------------------------------------------------------- main
\* part_000:281-293
OldMainReturn ==
    /\ CanRun(MainThread) /\ main_pc = "join"
    /\ \A t \in Workers \cup {UserThread} : pc[t] = "done"
    /\ main_pc' = "returned"
    /\ UNCHANGED <<again, alert, older, newer, config, lanes, fifos, empty, full, mutex,
                   stats, pc, locals, hpc, host, hi, shutdown, woken, token>>

\* ---------------------------------------------------------------- Next
OldSupplierStep(t) ==
    \/ OldSupplierDraw(t) \/ OldSupplierRecheck(t) \/ OldSupplierWait(t)
    \/ OldSupplierEnter(t) \/ OldSupplierProduce(t)
    \/ OldSupplierGiveBack(t) \/ OldSupplierPost(t)

OldRetailerStep(t) ==
    \/ OldRetailerTop(t) \/ OldRetailerWait(t) \/ OldRetailerEnter(t)
    \/ OldRetailerConsume(t) \/ OldRetailerGiveBack(t) \/ OldRetailerPost(t)

UserStep(limit) ==
    \/ UserRead(limit) \/ UserDispatch \/ UserLock \/ UserStatus
    \/ UserAdd \/ UserRemove
    \/ UserExitPostEmpty \/ UserExitPostFull \/ UserExitDone

OldHandlerStep ==
    \/ OldHandlerPostEmpty \/ OldHandlerPostFull \/ OldHandlerReturn

InitOld == InitOlder(1..MaxProducers, 1..MaxConsumers)

NextOld ==
    \/ \E t \in Suppliers : OldSupplierStep(t)
    \/ \E t \in Retailers : OldRetailerStep(t)
    \/ UserStep(MaxOldCommands)
    \/ OldSigint
    \/ OldHandlerStep
    \/ OldMainReturn

SpecOld == InitOld /\ [][NextOld]_vars

\* The older variant started with 0 suppliers and 0 retailers (its main
\* takes any number, part_000:261-265) and never interrupted: the command
\* thread alone drives the store with "add" and "remove".
InitConsole == InitOlder({0}, {0})

NextConsole ==
    \/ UserRead(MaxCommands) \/ UserDispatch \/ UserLock \/ UserStatus
    \/ UserAdd \/ UserRemove \/ UserExitDone
    \/ OldMainReturn

SpecConsole == InitConsole /\ [][NextConsole]_vars

\* Either program, interrupted up to twice. In new.c the second SIGINT finds
\* the first handler still running; in the older variant the handler returns
\* (part_000:60) and runs again at the next SIGINT, MaxSignals + 1 times in
\* all, nothing being typed on the terminal. The command thread exists in
\* the older variant only.
InitShutdown == InitAgain \/ InitOld

NewProgram == UserThread \notin DOMAIN pc

NextShutdown ==
    \/ \E t \in Suppliers : SupplierStep(t)
    \/ \E t \in Retailers : RetailerStep(t)
    \/ NewProgram /\ Sigint
    \/ HandlerStep
    \/ NewProgram /\ SigintAgain
    \/ HandlerAgainStep
    \/ NewProgram /\ MainReturn
    \/ \E t \in Suppliers : OldSupplierStep(t)
    \/ \E t \in Retailers : OldRetailerStep(t)
    \/ ~NewProgram /\ UserRead(0)
    \/ ~NewProgram /\ OldSigintWithin(MaxSignals + 1)
    \/ OldHandlerStep
    \/ ~NewProgram /\ OldMainReturn

SpecShutdown == InitShutdown /\ [][NextShutdown]_vars

\* ================================================================ claims
\* workers between a sem_wait and their following sem_post
InFlight == Cardinality({w \in Workers : token[w] # "none"})

\* a worker parked in sem_wait on a semaphore without tokens
Parked(w) ==
    \/ pc[w] = "s_wait" /\ empty = 0
    \/ pc[w] = "r_wait" /\ full = 0

\* the slots between the head and the tail cursor of each lane hold the
\* items stored and not yet extracted, oldest first
LaneContents ==
    /\ fifo_normal =
           [i \in 1..normal_count |-> buffer[(out + i - 1) % BUFFER_SIZE]]
    /\ fifo_urgent =
           [i \in 1..urgent_count |->
               urgent_buffer[(urgent_out + i - 1) % BUFFER_SIZE]]

\* C1: once simulation_count is 0, no worker stays blocked for ever in
\* sem_wait: a state in which the counter is 0 and every worker has left its
\* loop or is parked on a semaphore without tokens (so that, no interrupt
\* arriving, nothing moves any more) has no parked worker.
C1_ShutdownTerminates ==
    (simulation_count = 0 /\ \A w \in Workers : pc[w] = "done" \/ Parked(w))
        => \A w \in Workers : pc[w] = "done"

\* C2: the total occupancy of the two lanes never exceeds BUFFER_SIZE, the
\* states after the handler's wake-up tokens included.
C2_TotalOccupancy == total_stock <= BUFFER_SIZE

\* C3: without interrupt, the normal lane holds between 0 and BUFFER_SIZE-1
\* items and the urgent lane between 0 and BUFFER_SIZE: the number of items
\* each lane holds is what its cursors / its counter say and stays in range.
C3_LaneOccupancy ==
    /\ Len(fifo_normal) = normal_count
    /\ Len(fifo_normal) \in 0..(BUFFER_SIZE - 1)
    /\ Len(fifo_urgent) = urgent_count
    /\ urgent_count \in 0..BUFFER_SIZE

\* the normal lane is at its limit and a further item has been turned away
C3_Witness ==
    /\ Len(fifo_normal) = BUFFER_SIZE - 1
    /\ rand_next[0] = BUFFER_SIZE
    /\ \E t \in Suppliers : pc[t] = "s_post"

\* C4: without interrupt, no supplier that took a free-slot token calls
\* add_product while (in + 1) % BUFFER_SIZE = out.
C4_NoOverflow ==
    \A t \in Suppliers : pc[t] = "s_cs" => ~BufferFull

\* Scenario B: the command thread stored 3 urgent and then 2 normal items and
\* has removed items since, nothing else in between
ScenarioBRun ==
    /\ Len(oplog) >= 5
    /\ \A k \in 1..5 : oplog[k][1] = "add"
    /\ \A k \in 1..3 : oplog[k][3] = 1
    /\ \A k \in 4..5 : oplog[k][3] = 0
    /\ \A k \in 6..Len(oplog) : k <= 8 => oplog[k][1] = "remove"

\* C5: an extraction with both lanes non-empty returns the item at the head
\* of the urgent lane (the oldest urgent item stored, as long as the lane was
\* not overfilled) and leaves the normal lane as it is; after 3 urgent and 2
\* normal insertions the next 3 extractions return the 3 urgent items, in
\* the order of their insertion.
C5_UrgentFirst ==
    [][/\ (/\ pc[UserThread] = "u_remove_cs" /\ pc'[UserThread] = "u_top"
           /\ urgent_count > 0 /\ in # out) =>
              /\ oplog' = Append(oplog, <<"remove", urgent_buffer[urgent_out]>>)
              /\ Len(fifo_urgent) <= BUFFER_SIZE =>
                     item'[UserThread] = Head(fifo_urgent)
              /\ urgent_count' = urgent_count - 1
              /\ UNCHANGED <<buffer, in, out, fifo_normal>>
       /\ ScenarioBRun' =>
              \A k \in 6..Len(oplog') :
                  k <= 8 => oplog'[k] = <<"remove", oplog'[k - 5][2]>>]_vars

\* Scenario B has run to its end: 3 urgent, 2 normal, 3 extractions
C5_Witness ==
    /\ ScenarioBRun
    /\ Len(oplog) = 8
    /\ in # out

\* C6: every extraction returns the oldest item stored in its lane and not
\* yet extracted, and no stored item is overwritten: the lanes always hold
\* exactly the stored items, in the order of their insertion.
C6_FifoPerLane ==
    [][/\ \A t \in Retailers :
              (pc[t] = "r_cs" /\ pc'[t] = "r_post") =>
                  item'[t] = IF urgent_count > 0 THEN Head(fifo_urgent)
                             ELSE Head(fifo_normal)
       /\ LaneContents']_vars

\* C7 as stated: in every reachable state empty + full + the workers in
\* flight is BUFFER_SIZE, so empty + full = BUFFER_SIZE at quiescent points.
C7_TokenConservation ==
    /\ empty + full + InFlight = BUFFER_SIZE
    /\ InFlight = 0 => empty + full = BUFFER_SIZE

\* C7 amended: empty + full + the workers in flight is BUFFER_SIZE plus the
\* number of tokens the interrupt handler has posted so far; at quiescent
\* points before the handler posts, empty + full = BUFFER_SIZE.
C7_TokenConservationAmended ==
    /\ empty + full + InFlight = BUFFER_SIZE + hi
    /\ (InFlight = 0 /\ hi = 0) => empty + full = BUFFER_SIZE

\* the handler has posted all its tokens while workers are in flight
C7_Witness ==
    /\ hi = NUM_PRODUCERS + NUM_CONSUMERS
    /\ InFlight = NUM_PRODUCERS + NUM_CONSUMERS

\* C8: a worker that was parked in sem_wait when the interrupt arrived and
\* is woken by a token of the handler calls neither add_product nor
\* extract_product (it is never found past the call).
C8_WokenWorkersExit ==
    \A w \in Workers : woken[w] => pc[w] \notin {"s_post", "r_post"}

\* C9: whoever is about to call add_product holds a free-slot token it took
\* with sem_wait(&empty), and whoever is about to call extract_product holds
\* a filled-slot token it took with sem_wait(&full).
C9_TokenBeforeCall ==
    \A t \in DOMAIN pc :
        /\ pc[t] \in {"s_cs", "u_add_cs"} => token[t] = "empty"
        /\ (pc[t] = "os_cs" /\ stop_simulation = 0) => token[t] = "empty"
        /\ pc[t] = "r_cs" => token[t] = "full"
        /\ (pc[t] = "or_cs" /\ stop_simulation = 0) => token[t] = "full"
        /\ (pc[t] = "u_remove_cs" /\ ~StoreEmpty) => token[t] = "full"

\* C10: when add_product turns an item away with "Buffer overflow", the
\* lanes stay as they are and total_produced is not incremented.
C10_OverflowIsNoOp ==
    [][\A t \in Suppliers :
           (pc[t] = "s_cs" /\ pc'[t] = "s_post" /\ BufferFull) =>
               (UNCHANGED lanes /\ total_produced' = total_produced)]_vars

\* C11: Scenario A (1 supplier, 1 retailer, work bound 5, no interrupt): in
\* every state in which both workers have left their loops, total_consumed
\* is 5 and total_produced is at least total_consumed.
C11_ScenarioA ==
    (\A w \in Workers : pc[w] = "done") =>
        (total_consumed = 5 /\ total_produced >= total_consumed)

\* both workers of Scenario A have left their loops, the supplier having
\* produced more than the retailer consumed
C11_Witness ==
    /\ \A w \in Workers : pc[w] = "done"
    /\ total_consumed = 5
    /\ total_produced > total_consumed

\* what the claim calls the terminal state: stop flags and work counter,
\* lane contents, statistics, and the workers that have left their loops
ShutdownState ==
    <<simulation_count, simulation_running, stop_simulation, lanes, fifos,
      stats, {t \in DOMAIN pc : pc[t] = "done"}>>

\* a worker of either program parked in sem_wait without tokens
ParkedAtGate(w) ==
    \/ pc[w] \in {"s_wait", "os_wait"} /\ empty = 0
    \/ pc[w] \in {"r_wait", "or_wait"} /\ full = 0

FinalReport ==
    \/ hpc # "h_exited" /\ hpc' = "h_exited"
    \/ hpc2 # "h_exited" /\ hpc2' = "h_exited"
    \/ main_pc # "returned" /\ main_pc' = "returned"

\* C13: the final report is printed at most once in a run (no report has
\* been printed when it is printed), and only when every supplier and every
\* retailer has left its loop.
C13_FinalReportOnce ==
    [][FinalReport =>
           /\ hpc # "h_exited" /\ hpc2 # "h_exited" /\ main_pc # "returned"
           /\ \A w \in Workers : pc[w] = "done"]_vars

\* C14: the stock alert is LOW exactly when the total is at most 1, HIGH
\* exactly when it is at least 9 and NORMAL otherwise (1 gives LOW, 9 gives
\* HIGH, 5 gives NORMAL), for every content of the lanes with a total in
\* 0..10, and computing it changes no cursor, counter, semaphore or
\* statistic.
C14_StockClassification ==
    [][\A t \in Workers :
           (pc[t] \in {"s_refresh", "r_refresh"} /\ pc'[t] = "shown"
            /\ total_stock \in 0..10) =>
               /\ alert' = "LOW" <=> total_stock <= 1
               /\ alert' = "HIGH" <=> total_stock >= 9
               /\ alert' = "NORMAL" <=> (total_stock > 1 /\ total_stock < 9)
               /\ total_stock = 1 => alert' = "LOW"
               /\ total_stock = 9 => alert' = "HIGH"
               /\ total_stock = 5 => alert' = "NORMAL"
               /\ UNCHANGED <<lanes, fifos, empty, full, mutex, stats,
                              simulation_count, simulation_running>>]_vars

\* the alert has been computed for a store of 9 items, 4 of them urgent,
\* and replaced another one on the screen
C14_Witness ==
    /\ \E t \in Workers : pc[t] = "shown"
    /\ total_stock = 9 /\ urgent_count = 4
    /\ alert = "HIGH"

\* C15: the handler never blocks for ever in pthread_mutex_lock: it is never
\* waiting for the mutex while the thread it interrupted, which cannot run
\* before the handler returns, is the owner of the mutex.
C15_HandlerNeverBlocks ==
    /\ ~(hpc = "h_lock" /\ mutex = host)
    /\ ~(hpc2 = "h_lock" /\ mutex = host2)

\* C16: a retailer that holds a filled-slot token and finds the store empty
\* under the lock does not call extract_product: it leaves the lanes and the
\* statistics as they are and releases the mutex; it then posts exactly one
\* token to full, none to empty, and is back at the top of its loop.
C16_EmptyStoreRetry ==
    [][\A t \in Retailers :
           /\ (pc[t] = "r_cs" /\ pc'[t] # "r_cs" /\ StoreEmpty) =>
                  /\ pc'[t] = "r_repost"
                  /\ mutex = t /\ mutex' = NoThread
                  /\ item'[t] = item[t]
                  /\ UNCHANGED <<lanes, fifos, stats, empty, full>>
           /\ (pc[t] = "r_repost" /\ pc'[t] # "r_repost") =>
                  /\ pc'[t] = "r_top"
                  /\ full' = full + 1 /\ empty' = empty
                  /\ token[t] = "full" /\ token'[t] = "none"
                  /\ UNCHANGED <<lanes, fifos, stats, mutex>>]_vars

\* a retailer took a filled-slot token, found the store empty and is about
\* to give the token back
C16_Witness ==
    \E t \in Retailers :
        pc[t] = "r_repost" /\ StoreEmpty /\ token[t] = "full"

\* C17: add_product turns an item away only when the lane its priority
\* selects has no room. An urgent item is stored whenever urgent_count is
\* below BUFFER_SIZE, a normal item whenever the normal lane holds fewer
\* than BUFFER_SIZE - 1 items; the item is written at the tail of its lane,
\* the tail advances modulo BUFFER_SIZE, the lane grows by one and the other
\* lane stays as it is.
C17_LaneOverflow ==
    [][\A t \in Suppliers :
           (pc[t] = "s_cs" /\ pc'[t] = "s_post") =>
               /\ (priority[t] # 0 /\ urgent_count < BUFFER_SIZE) =>
                      /\ urgent_buffer'[urgent_in] = item[t]
                      /\ urgent_in' = (urgent_in + 1) % BUFFER_SIZE
                      /\ urgent_count' = urgent_count + 1
                      /\ UNCHANGED <<buffer, in, out, urgent_out>>
               /\ (priority[t] = 0 /\ normal_count < BUFFER_SIZE - 1) =>
                      /\ buffer'[in] = item[t]
                      /\ in' = (in + 1) % BUFFER_SIZE
                      /\ normal_count' = normal_count + 1
                      /\ UNCHANGED <<out, urgent_buffer, urgent_in,
                                     urgent_out, urgent_count>>
               /\ UNCHANGED lanes =>
                      \/ priority[t] # 0 /\ urgent_count >= BUFFER_SIZE
                      \/ priority[t] = 0 /\ normal_count >= BUFFER_SIZE - 1
      ]_vars

\* C18: in new.c, once simulation_count has reached 0 it stays 0 and no
\* worker starts new work: the lanes are written only by the add_product or
\* extract_product a worker already had in flight, a worker that has made
\* that call (or gave its token back) only goes on to the check at the top
\* of its loop and from there out of the loop, and a worker that left the
\* loop stays out; so each worker makes at most one further call.
AfterWork == {"s_post", "s_top", "s_chk", "r_post", "r_repost", "r_top", "r_chk"}

C18_NoNewWork ==
    [][simulation_count <= 0 =>
        /\ simulation_count' <= 0
        /\ \A w \in Workers :
              /\ pc[w] \in AfterWork => pc'[w] \in AfterWork \cup {"done"}
              /\ pc[w] = "done" => pc'[w] = "done"
              /\ pc[w] \in {"s_chk", "r_chk"} /\ pc'[w] # pc[w] => pc'[w] = "done"
        /\ (lanes' # lanes \/ stats' # stats) =>
              \E w \in Workers : /\ pc[w] \in {"s_cs", "r_cs"}
                                 /\ pc'[w] \in AfterWork]_vars

\* the retailer took the counter to 0 and then made the extraction it had
\* in flight, while a supplier still has its add_product in flight
C18_Witness ==
    /\ simulation_count = 0 /\ hpc = "idle"
    /\ \E r \in Retailers : pc[r] = "r_post"
    /\ \E s \in Suppliers : pc[s] = "s_lock"

\* C19: in new.c every step that writes the lanes, total_produced,
\* total_consumed or simulation_count is taken by the thread that holds the
\* mutex (a worker inside its section, or the handler on the thread it
\* interrupted), and in every reachable state at most one thread, worker or
\* handler, is between a pthread_mutex_lock and its pthread_mutex_unlock,
\* and that thread is the owner of the mutex.
InSection ==
    {w \in Workers : pc[w] \in {"s_chk", "s_cs", "r_chk", "r_cs"}}
    \cup (IF hpc = "h_cs" THEN {<<"handler", 1>>} ELSE {})
    \cup (IF hpc2 = "h_cs" THEN {<<"handler", 2>>} ELSE {})

SectionOwner(x) ==
    IF x = <<"handler", 1>> THEN host
    ELSE IF x = <<"handler", 2>> THEN host2 ELSE x

WritesShared ==
    \/ lanes' # lanes
    \/ stats' # stats
    \/ simulation_count' # simulation_count

C19_WritesUnderMutex ==
    /\ [](/\ Cardinality(InSection) <= 1
          /\ \A x \in InSection : mutex = SectionOwner(x)
          /\ InSection = {} => mutex = NoThread)
    /\ [][WritesShared =>
             \E x \in InSection :
                 /\ mutex = SectionOwner(x)
                 /\ x \notin InSection'
                 /\ x \in Workers => pc'[x] # pc[x]
                 /\ x = <<"handler", 1>> => hpc' # hpc
                 /\ x = <<"handler", 2>> => hpc2' # hpc2]_vars

\* a supplier is inside its section while a retailer and the handler both
\* wait for the mutex
C19_Witness ==
    /\ \E s \in Suppliers : pc[s] = "s_cs" /\ mutex = s
    /\ \E r \in Retailers : pc[r] = "r_lock"
    /\ hpc = "h_lock"

\* C20: in new.c, a run without interrupt that ends with all workers out of
\* their loops has consumed exactly the number of items entered at startup
\* (here BUFFER_SIZE): every decrement of simulation_count is matched by one
\* successful extraction.
C20_ConsumedEqualsBound ==
    (\A w \in Workers : pc[w] = "done") => total_consumed = BUFFER_SIZE

\* C21: in new.c, in every state of a run without interrupt in which no
\* worker is between a sem_wait and its following sem_post, full is the
\* number of items stored (normal_count + urgent_count) and empty is
\* BUFFER_SIZE minus that number: no token is posted to full for an item
\* that was not stored.
C21_FullCountsStored ==
    InFlight = 0 => (full = total_stock /\ empty = BUFFER_SIZE - total_stock)

====
